---- MODULE Spec2Model ----
(***************************************************************************)
(* LiveClient (src/src/index.ts): JSON-RPC style request/response and      *)
(* notification client over a socket.io socket.                            *)
(*                                                                         *)
(* The socket is the environment.  What the client hands to socket.emit    *)
(* is appended to outbox; what it hands to socket.on is appended to        *)
(* listeners.  The environment invokes the acknowledgement callbacks of    *)
(* emitted envelopes, delivers inbound envelopes to the "rpc" listeners    *)
(* and settles the promises returned by the registered handlers.           *)
(***************************************************************************)
EXTENDS Naturals, Sequences, FiniteSets

VARIABLES
    id,         \* LiveClient.id, the call counter
    calls,      \* the promises returned by request(), in call order
    outbox,     \* the socket.emit calls made by the client, in order
    listeners,  \* the socket.on registrations made by the client, in order
    inbound,    \* the envelopes the socket delivered on the "rpc" channel
    connected   \* whether the socket is connected

vars == <<id, calls, outbox, listeners, inbound, connected>>

(***************************************************************************)
(* Bounds of the model.                                                    *)
(***************************************************************************)
MaxEmits == 3       \* socket.emit calls made by the client
MaxListeners == 2   \* socket.on registrations made by the client
MaxInbound == 2     \* envelopes delivered on the "rpc" channel
MaxInvocations == 2 \* handler invocations made for them

(***************************************************************************)
(* JavaScript values.  Every value is a record tagged with its type.       *)
(***************************************************************************)
Undefined == [t |-> "undefined"]
Null == [t |-> "null"]
Bool(b) == [t |-> "boolean", v |-> b]
Str(s) == [t |-> "string", v |-> s]
Num(n) == [t |-> "number", v |-> n]

\* ToBoolean, as applied by `if (response.error)`.
Truthy(v) ==
    CASE v.t = "undefined" -> FALSE
      [] v.t = "null" -> FALSE
      [] v.t = "boolean" -> v.v
      [] v.t = "number" -> v.v # 0
      [] v.t = "string" -> v.v # ""
      [] OTHER -> TRUE

\* Number.prototype.toString of a non-negative integer: its decimal digits.
Digits == <<"0", "1", "2", "3", "4", "5", "6", "7", "8", "9">>

RECURSIVE toString(_)
toString(n) ==
    IF n < 10 THEN Digits[n + 1]
    ELSE toString(n \div 10) \o Digits[(n % 10) + 1]

RPCEvent == "rpc"

\* interface RPCError
RPCError(code, message) == [t |-> "object", code |-> code, message |-> message]

\* interface RPCRequest
RPCRequest(rid, method, params) ==
    [t |-> "object", id |-> rid, method |-> method, params |-> params]

\* interface RPCResponse; an absent optional field reads as undefined.
RPCResponse(rid, result, error) == [id |-> rid, result |-> result, error |-> error]

(***************************************************************************)
(* Inputs.                                                                 *)
(***************************************************************************)
P1 == [t |-> "object", x |-> 1]
P2 == [t |-> "object", text |-> "hi"]
Tokens == { Str("secret") }
V1 == Bool(TRUE)
E401 == RPCError(401, "bad token")

\* (address, method, param) triples passed to request().
CallArgs ==
    { <<"peerA", "Foo.Bar", P1>>,
      <<"Pipeline", "GetRegisteredAgents", P2>> }

\* (method, param) pairs passed to notify().
NotifyArgs == { <<"Chat.Message", P2>>, <<RPCEvent, P1>> }

\* Methods passed to onRequest().
HandlerMethods == { "Foo.Bar", "Foo.Baz" }

\* Methods passed to onNotification().
NotificationMethods == { "Chat.Message" }

\* Events passed to on().
SocketIOEvents == { "connect", "disconnect" }

\* The envelopes the relay may forward to this client.
InboundEnvelopes ==
    { RPCRequest("7", "Foo.Bar", <<P1>>),
      RPCRequest("8", "Foo.Baz", <<>>),
      RPCRequest("9", "Foo.Qux", <<P2>>) }

\* What the promise of a handler may fulfil with, and reject with.
HandlerResults == { V1 }
HandlerErrors == { Str("boom") }

NoResp == [id |-> "", result |-> Undefined, error |-> Undefined, none |-> TRUE]

\* The id of another call made so far: the next one for the first call, the
\* previous one for the others.
OtherIds(k) ==
    { calls[j].reqId : j \in {IF k = 1 THEN 2 ELSE k - 1} \cap (1..Len(calls)) }

\* The responses the peer may pass to the acknowledgement of the k-th call:
\* with the id of the call or of another one, with a result, an error or both.
ResponsesFor(k) ==
    { RPCResponse(calls[k].reqId, V1, Undefined),
      RPCResponse(calls[k].reqId, Undefined, E401),
      RPCResponse(calls[k].reqId, V1, E401),
      RPCResponse(calls[k].reqId, V1, Null) }
    \cup { RPCResponse(o, V1, Undefined) : o \in OtherIds(k) }
    \cup { RPCResponse(o, Undefined, E401) : o \in OtherIds(k) }

(***************************************************************************)
(* Promise resolution functions: a settled promise ignores them.           *)
(***************************************************************************)
\* A resolution that also takes effect on a settled promise.
resolve_Overwrites(c, v) == [c EXCEPT !.state = "resolved", !.value = v]

resolve(c, v) ==
    IF c.state = "pending" THEN [c EXCEPT !.state = "resolved", !.value = v] ELSE c

reject(c, e) ==
    IF c.state = "pending" THEN [c EXCEPT !.state = "rejected", !.value = e] ELSE c

\* The callback dropping a response whose id is not the id of the request.
AckCallback_ChecksId(c, response) ==
    IF response.id # c.reqId THEN c
    ELSE IF Truthy(response.error)
         THEN reject(c, response.error)
         ELSE resolve(c, response.result)

\* The callback looking at the result first.
AckCallback_ResultFirst(c, response) ==
    IF response.result # Undefined
    THEN resolve(c, response.result)
    ELSE reject(c, response.error)

\* The acknowledgement callback request() passes to socket.emit.
AckCallback(c, response) ==
    IF Truthy(response.error)
    THEN reject(c, response.error)
    ELSE resolve(c, response.result)

(***************************************************************************)
(* State after construction.                                               *)
(***************************************************************************)
Init ==
    /\ id = 0
    /\ calls = <<>>
    /\ outbox = <<>>
    /\ listeners = <<>>
    /\ inbound = <<>>
    /\ connected = TRUE

\* The counter left as it is.
IdIncrement_Stuck(n) == n

\* The counter advanced by two.
IdIncrement_ByTwo(n) == n + 2

\* `this.id++`
IdIncrement(n) == n + 1

\* The method composed without its separator.
ComposeMethod_NoDot(address, method) == address \o method

\* `address + "." + method`
ComposeMethod(address, method) == address \o "." \o method

(***************************************************************************)
(* LiveClient.request: increments the counter, creates the promise and     *)
(* emits the envelope with the promise's acknowledgement callback.         *)
(***************************************************************************)
Request(op, input, address, method, param) ==
    /\ Len(outbox) < MaxEmits
    /\ id' = IdIncrement(id)
    /\ calls' = Append(calls,
            [op |-> op, address |-> address, method |-> method, param |-> param,
             reqId |-> toString(id'), state |-> "pending", value |-> Undefined,
             first |-> NoResp, again |-> FALSE])
    /\ outbox' = Append(outbox,
            [channel |-> RPCEvent,
             args |-> <<RPCRequest(toString(id'), ComposeMethod(address, method),
                                   <<param>>)>>,
             ack |-> Len(calls) + 1,
             by |-> op,
             input |-> input])
    /\ UNCHANGED <<listeners, inbound, connected>>

request == \E a \in CallArgs : Request("request", a, a[1], a[2], a[3])

\* LiveClient.authenticate
\* The method split into address and method at its dot.
Authenticate_Split(token) ==
    Request("authenticate", <<token>>, "Live", "Authenticate", token)

Authenticate(token) ==
    Request("authenticate", <<token>>, "", "Live.Authenticate", token)

authenticate == \E token \in Tokens : Authenticate(token)

\* The notification sent as an envelope on the shared channel.
Notify_OnRpc(method, param) ==
    /\ Len(outbox) < MaxEmits
    /\ outbox' = Append(outbox,
            [channel |-> RPCEvent, args |-> <<RPCRequest("", method, <<param>>)>>,
             ack |-> 0, by |-> "notify", input |-> <<method, param>>])
    /\ UNCHANGED <<id, calls, listeners, inbound, connected>>

\* LiveClient.notify
Notify(method, param) ==
    /\ Len(outbox) < MaxEmits
    /\ outbox' = Append(outbox,
            [channel |-> method, args |-> <<param>>, ack |-> 0, by |-> "notify",
             input |-> <<method, param>>])
    /\ UNCHANGED <<id, calls, listeners, inbound, connected>>

notify == \E a \in NotifyArgs : Notify(a[1], a[2])

\* Disconnecting rejects the calls that are still pending.
disconnect_RejectsPending ==
    /\ connected' = FALSE
    /\ calls' = [k \in 1..Len(calls) |-> reject(calls[k], Str("disconnected"))]
    /\ UNCHANGED <<id, outbox, listeners, inbound>>

\* LiveClient.disconnect
disconnect ==
    /\ connected' = FALSE
    /\ UNCHANGED <<id, calls, outbox, listeners, inbound>>

(***************************************************************************)
(* The socket.                                                             *)
(***************************************************************************)
\* A callback sits in the microtask queue: the event loop takes no further
\* event from the socket before it has run.
MicrotaskQueued ==
    \E i \in 1..Len(inbound) : \E l \in DOMAIN inbound[i].handlers :
        inbound[i].handlers[l].stage = "caught"

\* The socket (re)connects.
SocketConnect ==
    /\ ~connected
    /\ ~MicrotaskQueued
    /\ connected' = TRUE
    /\ UNCHANGED <<id, calls, outbox, listeners, inbound>>

\* The socket invokes the acknowledgement callback of an emitted envelope.
DeliverAck ==
    /\ connected
    /\ ~MicrotaskQueued
    /\ \E i \in 1..Len(outbox) :
         /\ outbox[i].ack # 0
         /\ \E response \in ResponsesFor(outbox[i].ack) :
              LET k == outbox[i].ack
                  c == AckCallback(calls[k], response)
              IN  calls' = [calls EXCEPT ![k] =
                        [c EXCEPT !.first =
                            IF calls[k].first = NoResp THEN response ELSE @]]
    /\ UNCHANGED <<id, outbox, listeners, inbound, connected>>

\* The acknowledgement callback of a call is invoked once more, after its
\* first invocation.
DeliverAckAgain ==
    /\ connected
    /\ ~MicrotaskQueued
    /\ \E i \in 1..Len(outbox) :
         /\ outbox[i].ack # 0
         /\ calls[outbox[i].ack].first # NoResp
         /\ \E response \in ResponsesFor(outbox[i].ack) :
              LET k == outbox[i].ack
                  c == AckCallback(calls[k], response)
              IN  calls' = [calls EXCEPT ![k] = [c EXCEPT !.again = TRUE]]
    /\ UNCHANGED <<id, outbox, listeners, inbound, connected>>

(***************************************************************************)
(* Registrations.  The handler or callback of a registration is named by   *)
(* the registration's position in listeners.                               *)
(***************************************************************************)
\* LiveClient.onRequest: one more listener on the shared "rpc" channel.
OnRequest(method) ==
    /\ Len(listeners) < MaxListeners
    /\ listeners' = Append(listeners,
            [event |-> RPCEvent, method |-> method, by |-> "onRequest"])
    /\ UNCHANGED <<id, calls, outbox, inbound, connected>>

onRequest == \E m \in HandlerMethods : OnRequest(m)

\* LiveClient.onNotification
OnNotification(method) ==
    /\ Len(listeners) < MaxListeners
    /\ listeners' = Append(listeners,
            [event |-> method, method |-> method, by |-> "onNotification"])
    /\ UNCHANGED <<id, calls, outbox, inbound, connected>>

onNotification == \E m \in NotificationMethods : OnNotification(m)

\* LiveClient.on
On(event) ==
    /\ Len(listeners) < MaxListeners
    /\ listeners' = Append(listeners,
            [event |-> event, method |-> "", by |-> "on"])
    /\ UNCHANGED <<id, calls, outbox, inbound, connected>>

on == \E e \in SocketIOEvents : On(e)

(***************************************************************************)
(* The listener onRequest registers (lines 173-178).                       *)
(***************************************************************************)
\* request.params[0]; an index past the end of an array reads as undefined.
Param0(params) == IF Len(params) >= 1 THEN params[1] ELSE Undefined

\* The filter left out.
Matches_Always(listener, req) == TRUE

\* `if (request.method === method)`
Matches(listener, req) == req.method = listener.method

\* A registration replacing the earlier ones for the same method.
Invoked_LastWins(req) ==
    { l \in 1..Len(listeners) :
        /\ listeners[l].event = RPCEvent
        /\ listeners[l].by = "onRequest"
        /\ Matches(listeners[l], req)
        /\ \A o \in (l + 1)..Len(listeners) : listeners[o].method # listeners[l].method }

\* The first registration for a method kept, the later ones dropped.
Invoked_FirstWins(req) ==
    { l \in 1..Len(listeners) :
        /\ listeners[l].event = RPCEvent
        /\ listeners[l].by = "onRequest"
        /\ Matches(listeners[l], req)
        /\ \A o \in 1..(l - 1) : listeners[o].method # listeners[l].method }

\* The registrations whose handler the envelope req invokes.
Invoked(req) ==
    { l \in 1..Len(listeners) :
        /\ listeners[l].event = RPCEvent
        /\ listeners[l].by = "onRequest"
        /\ Matches(listeners[l], req) }

\* The socket delivers an envelope on the "rpc" channel: every listener of
\* the channel runs; those that match call their handler, which returns a
\* promise that is still pending.
\* The number of handler invocations made for the envelopes of a sequence.
RECURSIVE Invocations(_)
Invocations(envs) ==
    IF envs = <<>> THEN 0
    ELSE Cardinality(DOMAIN Head(envs).handlers) + Invocations(Tail(envs))

Deliver(req, from) ==
    /\ connected
    /\ ~MicrotaskQueued
    /\ Len(inbound) < MaxInbound
    /\ Invocations(inbound) + Cardinality(Invoked(req)) <= MaxInvocations
    /\ inbound' = Append(inbound,
            [request |-> req,
             from |-> from,
             registered |-> Len(listeners),
             handlers |-> [l \in Invoked(req) |->
                             [arg |-> Param0(req.params), stage |-> "running",
                              outcome |-> Undefined]],
             acks |-> <<>>,
             returned |-> FALSE])
    /\ UNCHANGED <<id, calls, outbox, listeners, connected>>

\* An envelope of a peer that is not modelled.
InboundRpc == \E req \in InboundEnvelopes : Deliver(req, 0)

\* The acknowledgement with the result under a misspelt field name.
ResultAck_NoResult(req, result) == RPCResponse(req.id, Undefined, Undefined)

\* The acknowledgement carrying the method where the id belongs.
ResultAck_MethodAsId(req, result) == RPCResponse(req.method, result, Undefined)

\* callback({ id: request.id, result: result })
ResultAck(req, result) == RPCResponse(req.id, result, Undefined)

\* The failure acknowledged as a result.
ErrorAck_AsResult(req, err) == RPCResponse(req.id, err, Undefined)

\* callback({ id: request.id, error: { code: 500, message: err } })
ErrorAck(req, err) == RPCResponse(req.id, Undefined, RPCError(500, err))

\* The promise of a handler fulfils with value v: .catch passes v through
\* and the .then callback acknowledges it.
HandlerFulfil ==
    \E i \in 1..Len(inbound) : \E l \in DOMAIN inbound[i].handlers :
      \E v \in HandlerResults :
        /\ inbound[i].handlers[l].stage = "running"
        /\ inbound' = [inbound EXCEPT
              ![i].handlers[l].stage = "fulfilled",
              ![i].handlers[l].outcome = v,
              ![i].acks = Append(@, [by |-> l, response |-> ResultAck(inbound[i].request, v)])]
        /\ UNCHANGED <<id, calls, outbox, listeners, connected>>

\* The error acknowledged on every envelope delivered so far.
HandlerReject_AcksAll ==
    \E i \in 1..Len(inbound) : \E l \in DOMAIN inbound[i].handlers :
      \E err \in HandlerErrors :
        /\ inbound[i].handlers[l].stage = "running"
        /\ inbound' = [n \in 1..Len(inbound) |->
              IF n = i
              THEN [inbound[n] EXCEPT
                      !.handlers[l].stage = "caught",
                      !.handlers[l].outcome = err,
                      !.acks = Append(@, [by |-> l, response |-> [id |-> inbound[n].request.id, result |-> Undefined, error |-> [t |-> "object", code |-> 500, message |-> err]]])]
              ELSE [inbound[n] EXCEPT
                      !.acks = Append(@, [by |-> l, response |-> [id |-> inbound[n].request.id, result |-> Undefined, error |-> [t |-> "object", code |-> 500, message |-> err]]])]]
        /\ UNCHANGED <<id, calls, outbox, listeners, connected>>

\* The promise of a handler rejects with err: the .catch callback
\* acknowledges the error; the promise .catch returns fulfils with what the
\* acknowledgement callback returned (undefined), which queues the .then
\* callback as a microtask.
HandlerReject ==
    \E i \in 1..Len(inbound) : \E l \in DOMAIN inbound[i].handlers :
      \E err \in HandlerErrors :
        /\ inbound[i].handlers[l].stage = "running"
        /\ inbound' = [inbound EXCEPT
              ![i].handlers[l].stage = "caught",
              ![i].handlers[l].outcome = err,
              ![i].acks = Append(@, [by |-> l, response |-> ErrorAck(inbound[i].request, err)])]
        /\ UNCHANGED <<id, calls, outbox, listeners, connected>>

\* The queued .then callback of a handler whose promise rejected.
ThenAfterCatch ==
    \E i \in 1..Len(inbound) : \E l \in DOMAIN inbound[i].handlers :
        /\ inbound[i].handlers[l].stage = "caught"
        /\ inbound' = [inbound EXCEPT
              ![i].handlers[l].stage = "rejected",
              ![i].acks = Append(@, [by |-> l, response |-> ResultAck(inbound[i].request, Undefined)])]
        /\ UNCHANGED <<id, calls, outbox, listeners, connected>>

(***************************************************************************)
(* The relay between a calling client, whose state is id, calls and        *)
(* outbox, and the peer it addresses, whose state is listeners and         *)
(* inbound.                                                                *)
(***************************************************************************)
\* The address of the peer.
PeerAddress == "peerA"

\* The methods the relay forwards.
ForwardedMethods == { a[2] : a \in CallArgs }

\* The envelope's method is the peer's address, a dot and a method.
AddressedToPeer(env) ==
    \E m \in ForwardedMethods : env.method = PeerAddress \o "." \o m

\* The method of an envelope without its leading address segment.
StripAddress(env) ==
    CHOOSE m \in ForwardedMethods : env.method = PeerAddress \o "." \o m

\* The relay forwards an emitted envelope to the peer it addresses, once,
\* with the address stripped from the method.
RelayForward ==
    \E i \in 1..Len(outbox) :
        /\ outbox[i].channel = RPCEvent
        /\ outbox[i].ack # 0
        /\ AddressedToPeer(outbox[i].args[1])
        /\ \A n \in 1..Len(inbound) : inbound[n].from # i
        /\ Deliver(RPCRequest(outbox[i].args[1].id,
                              StripAddress(outbox[i].args[1]),
                              outbox[i].args[1].params), i)

\* The channel accepts the first acknowledgement made for a forwarded
\* envelope and passes it to the acknowledgement callback of the caller.
RelayReturn ==
    \E i \in 1..Len(inbound) :
        /\ inbound[i].from # 0
        /\ ~inbound[i].returned
        /\ Len(inbound[i].acks) >= 1
        /\ LET k == outbox[inbound[i].from].ack
               response == inbound[i].acks[1].response
               c == AckCallback(calls[k], response)
           IN  calls' = [calls EXCEPT ![k] =
                     [c EXCEPT !.first =
                         IF calls[k].first = NoResp THEN response ELSE @]]
        /\ inbound' = [inbound EXCEPT ![i].returned = TRUE]
        /\ UNCHANGED <<id, outbox, listeners, connected>>

\* request() of a method of the peer.
requestPeer ==
    \E a \in CallArgs :
        a[1] = PeerAddress /\ Request("request", a, a[1], a[2], a[3])

NextCalls ==
    \/ request
    \/ authenticate
    \/ notify
    \/ disconnect
    \/ SocketConnect
    \/ DeliverAck

SpecCalls == Init /\ [][NextCalls]_vars

\* Calls whose acknowledgement callback is invoked any number of times.
NextSettle ==
    \/ requestPeer
    \/ DeliverAck
    \/ DeliverAckAgain

SpecSettle == Init /\ [][NextSettle]_vars

\* The client's operations alone.
NextApi ==
    \/ request
    \/ authenticate
    \/ notify
    \/ disconnect
    \/ onRequest
    \/ onNotification
    \/ on

SpecApi == Init /\ [][NextApi]_vars

\* The dispatch of inbound envelopes to the registered handlers.
NextDispatch ==
    \/ onRequest
    \/ InboundRpc
    \/ HandlerFulfil
    \/ HandlerReject
    \/ ThenAfterCatch

SpecDispatch == Init /\ [][NextDispatch]_vars

\* A call from the client to the peer and back.
NextEndToEnd ==
    \/ requestPeer
    \/ onRequest
    \/ RelayForward
    \/ HandlerFulfil
    \/ HandlerReject
    \/ ThenAfterCatch
    \/ RelayReturn

SpecEndToEnd == Init /\ [][NextEndToEnd]_vars

\* The channel delivers every acknowledgement it has accepted.
FairEndToEnd == SpecEndToEnd /\ WF_vars(RelayReturn)

\* Calls made while handlers of earlier envelopes are running and after
\* acknowledgement callbacks of earlier calls have run.
NextNested ==
    \/ requestPeer
    \/ authenticate
    \/ onRequest
    \/ RelayForward
    \/ HandlerFulfil
    \/ RelayReturn

SpecNested == Init /\ [][NextNested]_vars

Next ==
    \/ NextNested
    \/ NextCalls
    \/ NextApi
    \/ NextDispatch
    \/ NextEndToEnd
    \/ NextSettle

Spec == Init /\ [][Next]_vars

(***************************************************************************)
(* Properties.                                                             *)
(***************************************************************************)
\* What a call that was passed `response` while pending has settled to.
SettledBy(c, response) ==
    IF Truthy(response.error)
    THEN c.state = "rejected" /\ c.value = response.error
    ELSE c.state = "resolved" /\ c.value = response.result

\* The entries of outbox that carry the envelope of the k-th call.
EnvelopesOf(k) == { i \in 1..Len(outbox) : outbox[i].ack = k }

\* The entries of outbox made by request() or authenticate().
Envelopes == { i \in 1..Len(outbox) : outbox[i].by \in {"request", "authenticate"} }

\* C1: every call whose acknowledgement callback was invoked has settled, and
\* it has settled with the result or error of a response whose id is the id
\* of its own request envelope.
C1_SettlesFromOwnIdResponse ==
    \A k \in 1..Len(calls) :
        calls[k].first # NoResp =>
            /\ calls[k].state # "pending"
            /\ SettledBy(calls[k], calls[k].first)
            /\ calls[k].first.id = calls[k].reqId

\* C2: the ids of the envelopes emitted by the client are decimal renderings
\* of integers that strictly increase in emission order, so that no id is
\* used by two envelopes.
C2_IdsStrictlyIncrease ==
    \A i \in Envelopes : \A j \in Envelopes :
        i < j =>
            \E a \in 1..Len(outbox) : \E b \in 1..Len(outbox) :
                /\ a < b
                /\ outbox[i].args[1].id = toString(a)
                /\ outbox[j].args[1].id = toString(b)

C2_Witness ==
    /\ Cardinality(Envelopes) >= 2
    /\ \E i \in Envelopes : \E j \in Envelopes : \E n \in 1..Len(outbox) :
          i < n /\ n < j /\ outbox[n].by = "notify"
    /\ \E i \in Envelopes : outbox[i].by = "authenticate"
    /\ \E l \in 1..Len(listeners) : listeners[l].by = "onRequest"
    /\ \E l \in 1..Len(listeners) : listeners[l].by \in {"onNotification", "on"}
    /\ ~connected

\* C3: request(a, m, p) emits exactly one envelope, on the "rpc" channel, whose
\* method is a + "." + m and whose params is the one-element sequence [p];
\* request("peerA", "Foo.Bar", p) emits the method "peerA.Foo.Bar".
C3_EnvelopeShape ==
    /\ Cardinality(Envelopes) = Len(calls)
    /\ \A k \in 1..Len(calls) :
          /\ Cardinality(EnvelopesOf(k)) = 1
          /\ \A i \in EnvelopesOf(k) :
                /\ outbox[i].channel = "rpc"
                /\ Len(outbox[i].args) = 1
                /\ outbox[i].args[1].method = calls[k].address \o "." \o calls[k].method
                /\ outbox[i].args[1].params = <<calls[k].param>>
                /\ (calls[k].address = "peerA" /\ calls[k].method = "Foo.Bar"
                      => outbox[i].args[1].method = "peerA.Foo.Bar")

C3_Witness ==
    \E k \in 1..Len(calls) : \E i \in EnvelopesOf(k) :
        /\ calls[k].op = "request"
        /\ calls[k].address = "peerA"
        /\ calls[k].method = "Foo.Bar"
        /\ calls[k].param = P1
        /\ outbox[i].args[1].method = "peerA.Foo.Bar"
        /\ outbox[i].args[1].params = <<P1>>

\* C4: a call whose acknowledgement callback was passed a response with an
\* error object is rejected with exactly that object, whether or not the
\* response carries a result; one passed a response without error field is
\* resolved with the response's result.
C4_ErrorRejectsResultResolves ==
    \A k \in 1..Len(calls) :
        LET r == calls[k].first IN
        r # NoResp =>
            /\ r.error.t = "object" =>
                  calls[k].state = "rejected" /\ calls[k].value = r.error
            /\ r.error = Undefined =>
                  calls[k].state = "resolved" /\ calls[k].value = r.result

C4_Witness ==
    /\ \E k \in 1..Len(calls) :
          /\ calls[k].reqId = "3"
          /\ calls[k].first = RPCResponse("3", Undefined, RPCError(401, "bad token"))
          /\ calls[k].state = "rejected"
          /\ calls[k].value.code = 401
    /\ \E k \in 1..Len(calls) :
          /\ calls[k].first.result = V1
          /\ calls[k].first.error = E401
          /\ calls[k].state = "rejected"
    /\ \E k \in 1..Len(calls) :
          /\ calls[k].first.result = V1
          /\ calls[k].first.error = Undefined
          /\ calls[k].state = "resolved"

\* The acknowledgements the handler of registration l made for the i-th
\* inbound envelope, in order.
RECURSIVE AcksOf(_, _)
AcksOf(acks, l) ==
    IF acks = <<>> THEN <<>>
    ELSE IF Head(acks).by = l
         THEN <<Head(acks).response>> \o AcksOf(Tail(acks), l)
         ELSE AcksOf(Tail(acks), l)

\* The onRequest registrations made before the i-th envelope was delivered.
RegisteredFor(i) ==
    { l \in 1..inbound[i].registered : listeners[l].by = "onRequest" }

\* C5: of the handlers registered when an envelope is delivered, exactly those
\* registered for the envelope's method are invoked, and every
\* acknowledgement of the envelope comes from one of them.
C5_OnlyMatchingHandlers ==
    \A i \in 1..Len(inbound) :
        /\ \A l \in RegisteredFor(i) :
              l \in DOMAIN inbound[i].handlers
                  <=> listeners[l].method = inbound[i].request.method
        /\ DOMAIN inbound[i].handlers \subseteq RegisteredFor(i)
        /\ \A n \in 1..Len(inbound[i].acks) :
              /\ inbound[i].acks[n].by \in RegisteredFor(i)
              /\ listeners[inbound[i].acks[n].by].method = inbound[i].request.method

C5_Witness ==
    \E i \in 1..Len(inbound) : \E l \in RegisteredFor(i) : \E o \in RegisteredFor(i) :
        /\ inbound[i].request.method = "Foo.Bar"
        /\ listeners[l].method = "Foo.Bar"
        /\ listeners[o].method = "Foo.Baz"
        /\ l \in DOMAIN inbound[i].handlers
        /\ o \notin DOMAIN inbound[i].handlers
        /\ Len(inbound[i].acks) >= 1

\* C6: a handler whose promise fulfilled with V has acknowledged its envelope
\* exactly once, with the envelope's id, the result V and no error.
C6_FulfilAcksOnce ==
    \A i \in 1..Len(inbound) : \A l \in DOMAIN inbound[i].handlers :
        inbound[i].handlers[l].stage = "fulfilled" =>
            AcksOf(inbound[i].acks, l) =
                << [id |-> inbound[i].request.id,
                    result |-> inbound[i].handlers[l].outcome,
                    error |-> Undefined] >>

C6_Witness ==
    \E i \in 1..Len(inbound) : \E l \in DOMAIN inbound[i].handlers :
        /\ inbound[i].request.id = "7"
        /\ inbound[i].handlers[l].stage = "fulfilled"
        /\ inbound[i].handlers[l].outcome = V1
        /\ AcksOf(inbound[i].acks, l) = << [id |-> "7", result |-> V1, error |-> Undefined] >>

\* C7: a handler whose promise rejected has acknowledged its envelope exactly
\* once, with the envelope's id and the error {code: 500, message: <failure>},
\* and makes no second acknowledgement.
C7_RejectAcksOnce ==
    \A i \in 1..Len(inbound) : \A l \in DOMAIN inbound[i].handlers :
        inbound[i].handlers[l].stage \in {"caught", "rejected"} =>
            AcksOf(inbound[i].acks, l) =
                << [id |-> inbound[i].request.id,
                    result |-> Undefined,
                    error |-> [t |-> "object", code |-> 500,
                               message |-> inbound[i].handlers[l].outcome]] >>

\* A step in which notify() emits.
NotifyStep ==
    /\ Len(outbox') > Len(outbox)
    /\ outbox'[Len(outbox')].by = "notify"

\* C8: notify(m, p) appends exactly one message, on the channel named m (the
\* "rpc" channel only if m is "rpc"), carrying p alone and no acknowledgement
\* callback, and changes neither the calls nor the counter.
C8_NotifyFrame ==
    [][NotifyStep =>
        LET e == outbox'[Len(outbox')] IN
        /\ outbox' = Append(outbox, e)
        /\ e.channel = e.input[1]
        /\ (e.input[1] # "rpc" => e.channel # "rpc")
        /\ e.args = <<e.input[2]>>
        /\ e.ack = 0
        /\ calls' = calls
        /\ id' = id
        /\ listeners' = listeners]_vars

C8_Witness ==
    /\ Len(outbox) >= 2
    /\ outbox[Len(outbox)].by = "notify"
    /\ outbox[Len(outbox)].channel = "Chat.Message"
    /\ outbox[Len(outbox)].args = <<P2>>
    /\ \E k \in 1..Len(calls) : calls[k].state = "pending"
    /\ \E k \in 1..Len(calls) : calls[k].state # "pending"

\* A step in which authenticate() emits.
AuthenticateStep ==
    /\ Len(outbox') > Len(outbox)
    /\ outbox'[Len(outbox')].by = "authenticate"

\* C9: authenticate(token) takes the next id of the counter, emits on "rpc"
\* the envelope with that id, method ".Live.Authenticate" and params [token]
\* with the acknowledgement callback of a new pending call, and that call
\* settles from the response passed to the callback as any call does.
C9_AuthenticateIsRequest ==
    /\ [][AuthenticateStep =>
            LET e == outbox'[Len(outbox')] IN
            /\ id' = id + 1
            /\ outbox' = Append(outbox, e)
            /\ e.channel = "rpc"
            /\ e.args = << [t |-> "object", id |-> toString(id'),
                            method |-> ".Live.Authenticate",
                            params |-> <<e.input[1]>>] >>
            /\ Len(calls') = Len(calls) + 1
            /\ e.ack = Len(calls')
            /\ calls'[e.ack].state = "pending"
            /\ calls'[e.ack].reqId = toString(id')
            /\ \A k \in 1..Len(calls) : calls'[k] = calls[k]]_vars
    /\ [](\A k \in 1..Len(calls) :
            calls[k].op = "authenticate" /\ calls[k].first # NoResp
                => SettledBy(calls[k], calls[k].first))

C9_Witness ==
    \E k \in 1..Len(calls) : \E j \in 1..Len(calls) :
        /\ calls[k].op = "authenticate"
        /\ calls[j].op = "request"
        /\ j < k
        /\ calls[k].state = "resolved"
        /\ calls[k].value = V1

\* C10: a pending call leaves the pending state only in a step in which its
\* own acknowledgement callback is invoked for the first time, and a step
\* that disconnects the socket changes neither the calls nor the counter.
C10_PendingUntilAcknowledged ==
    /\ [][\A k \in 1..Len(calls) :
            calls[k].state = "pending" /\ calls'[k].state # "pending"
                => calls[k].first = NoResp /\ calls'[k].first # NoResp]_vars
    /\ [][connected /\ ~connected' => calls' = calls /\ id' = id]_vars

C10_Witness ==
    /\ ~connected
    /\ \E k \in 1..Len(calls) : calls[k].state = "pending"
    /\ \E k \in 1..Len(calls) : calls[k].state = "rejected"

\* A step in which a handler invoked for the i-th envelope fails.
HandlerFails(i) ==
    \E l \in DOMAIN inbound[i].handlers :
        /\ inbound[i].handlers[l].stage = "running"
        /\ inbound'[i].handlers[l].stage = "caught"

\* C11: a step that changes one call (settles it, with a result or with an
\* error) leaves every other call as it was, and a step in which a handler
\* fails for one inbound envelope leaves every other envelope, its
\* acknowledgements included, as it was.
C11_SettlingIsLocal ==
    /\ [][\A k \in 1..Len(calls) :
            calls'[k] # calls[k] =>
                \A j \in 1..Len(calls) : j # k => calls'[j] = calls[j]]_vars
    /\ [][\A i \in 1..Len(inbound) :
            HandlerFails(i) =>
                \A j \in 1..Len(inbound) : j # i => inbound'[j] = inbound[j]]_vars

C11_Witness ==
    /\ \E k \in 1..Len(calls) : \E j \in 1..Len(calls) :
          /\ calls[k].state = "rejected"
          /\ calls[j].state = "resolved"
    /\ \E i \in 1..Len(inbound) : \E j \in 1..Len(inbound) :
          /\ \E l \in DOMAIN inbound[i].handlers :
                inbound[i].handlers[l].stage = "rejected"
          /\ \E l \in DOMAIN inbound[j].handlers :
                inbound[j].handlers[l].stage = "fulfilled"
          /\ Len(inbound[j].acks) = 1

\* No handler registered when the i-th envelope was delivered has its method.
Unmatched(i) ==
    \A l \in RegisteredFor(i) : listeners[l].method # inbound[i].request.method

\* C12: an envelope whose method equals none of the registered methods
\* invokes no handler and is never acknowledged, and the call it was
\* forwarded for stays pending.
C12_UnmatchedIsIgnored ==
    \A i \in 1..Len(inbound) :
        Unmatched(i) =>
            /\ DOMAIN inbound[i].handlers = {}
            /\ inbound[i].acks = <<>>
            /\ ~inbound[i].returned
            /\ inbound[i].from # 0 =>
                  calls[outbox[inbound[i].from].ack].state = "pending"

C12_Witness ==
    \E i \in 1..Len(inbound) :
        /\ Unmatched(i)
        /\ inbound[i].from # 0
        /\ inbound[i].registered >= 1
        /\ \E l \in 1..Len(listeners) :
              /\ l > inbound[i].registered
              /\ listeners[l].method = inbound[i].request.method
        /\ calls[outbox[inbound[i].from].ack].state = "pending"

\* Two registrations for the method of the i-th envelope, h1 before h2, both
\* made before the envelope was delivered.
RegisteredTwice(i, h1, h2) ==
    /\ h1 \in RegisteredFor(i)
    /\ h2 \in RegisteredFor(i)
    /\ h1 < h2
    /\ listeners[h1].method = inbound[i].request.method
    /\ listeners[h2].method = inbound[i].request.method

CallerOf(i) == outbox[inbound[i].from].ack

\* The i-th envelope was forwarded by the relay and invoked the handler of
\* registration l.
ForwardedTo(i, l) ==
    IF i <= Len(inbound)
    THEN inbound[i].from # 0 /\ l \in DOMAIN inbound[i].handlers
    ELSE FALSE

\* The handler of registration l made the first acknowledgement of the i-th
\* envelope.
AcknowledgedFirst(i, l) ==
    /\ Len(inbound[i].acks) >= 1
    /\ inbound[i].acks[1].by = l

\* The handler of registration l completed with v for the forwarded i-th
\* envelope before any other handler acknowledged it.
FulfilledFirst(i, l, v) ==
    IF ForwardedTo(i, l)
    THEN /\ inbound[i].handlers[l].stage = "fulfilled"
         /\ inbound[i].handlers[l].outcome = v
         /\ AcknowledgedFirst(i, l)
    ELSE FALSE

\* The call forwarded as the i-th envelope has resolved with v.
ResolvedWith(i, v) ==
    IF i <= Len(inbound)
    THEN IF inbound[i].from # 0
         THEN /\ calls[CallerOf(i)].state = "resolved"
              /\ calls[CallerOf(i)].value = v
         ELSE FALSE
    ELSE FALSE

\* C14: when request(addrB, m, p) is forwarded to peer B with the address
\* stripped, every handler B registered for m is invoked with p, and if such
\* a handler completes with V before any other handler registered for m has
\* acknowledged the envelope, the call of A eventually resolves with V.
C14_EndToEndResolves ==
    /\ [](\A i \in 1..MaxInbound : \A l \in 1..MaxListeners :
            ForwardedTo(i, l) =>
                /\ outbox[inbound[i].from].args[1].method
                      = PeerAddress \o "." \o listeners[l].method
                /\ inbound[i].handlers[l].arg = calls[CallerOf(i)].param)
    /\ \A i \in 1..MaxInbound : \A l \in 1..MaxListeners :
          FulfilledFirst(i, l, V1) ~> ResolvedWith(i, V1)

C14_Witness ==
    \E i \in 1..Len(inbound) : \E l \in DOMAIN inbound[i].handlers :
        /\ ForwardedTo(i, l)
        /\ inbound[i].request.method = "Foo.Bar"
        /\ inbound[i].handlers[l].arg = P1
        /\ inbound[i].handlers[l].stage = "fulfilled"
        /\ AcknowledgedFirst(i, l)
        /\ calls[CallerOf(i)].address = "peerA"
        /\ calls[CallerOf(i)].state = "resolved"
        /\ calls[CallerOf(i)].value = V1

\* The handler of registration l failed with err for the forwarded i-th
\* envelope before any other handler acknowledged it.
FailedFirst(i, l, err) ==
    IF ForwardedTo(i, l)
    THEN /\ inbound[i].handlers[l].stage \in {"caught", "rejected"}
         /\ inbound[i].handlers[l].outcome = err
         /\ AcknowledgedFirst(i, l)
    ELSE FALSE

\* C15: when the handler of a forwarded request fails with err and its
\* acknowledgement is the first the channel gets for the envelope, the
\* caller's call is never resolved, neither before nor after the handler's
\* second acknowledgement (the undefined result), and once the channel has
\* returned the acknowledgement the call is rejected with
\* { code: 500, message: err }.
C15_FailureRejectsCaller ==
    \A i \in 1..Len(inbound) : \A l \in DOMAIN inbound[i].handlers :
      \A err \in HandlerErrors :
        FailedFirst(i, l, err) =>
            /\ calls[CallerOf(i)].state # "resolved"
            /\ inbound[i].returned =>
                  /\ calls[CallerOf(i)].state = "rejected"
                  /\ calls[CallerOf(i)].value = RPCError(500, err)
                  /\ calls[CallerOf(i)].value.code = 500
                  /\ calls[CallerOf(i)].value.message = err

C15_Witness ==
    \E i \in 1..Len(inbound) : \E l \in DOMAIN inbound[i].handlers :
        /\ FailedFirst(i, l, Str("boom"))
        /\ inbound[i].handlers[l].stage = "rejected"
        /\ Len(inbound[i].acks) >= 2
        /\ inbound[i].acks[2] = [by |-> l, response |-> ResultAck(inbound[i].request, Undefined)]
        /\ inbound[i].returned
        /\ calls[CallerOf(i)].state = "rejected"
        /\ calls[CallerOf(i)].value = RPCError(500, Str("boom"))

\* The handler of registration l has made an acknowledgement of the i-th
\* envelope.
Acknowledged(i, l) == AcksOf(inbound[i].acks, l) # <<>>

\* C16: a forwarded envelope whose method has two registrations invokes the
\* handlers of both, and each of them acknowledges the envelope once its
\* promise has settled; when the channel has returned an acknowledgement the
\* caller's call is settled by the first acknowledgement made, and from then
\* on no step, a later acknowledgement included, changes the caller's call.
C16_FirstAcknowledgementDecides ==
    /\ [](\A i \in 1..Len(inbound) :
            \A h1 \in RegisteredFor(i) : \A h2 \in RegisteredFor(i) :
              (inbound[i].from # 0 /\ RegisteredTwice(i, h1, h2)) =>
                  /\ {h1, h2} \subseteq DOMAIN inbound[i].handlers
                  /\ \A h \in {h1, h2} :
                        inbound[i].handlers[h].stage # "running" => Acknowledged(i, h)
                  /\ inbound[i].returned =>
                        SettledBy(calls[CallerOf(i)], inbound[i].acks[1].response))
    /\ [][\A i \in 1..Len(inbound) :
            (inbound[i].from # 0 /\ inbound[i].returned) =>
                calls'[CallerOf(i)] = calls[CallerOf(i)]]_vars

C16_Witness ==
    \E i \in 1..Len(inbound) :
      \E h1 \in RegisteredFor(i) : \E h2 \in RegisteredFor(i) :
        /\ inbound[i].from # 0
        /\ RegisteredTwice(i, h1, h2)
        /\ inbound[i].returned
        /\ Len(inbound[i].acks) >= 2
        /\ inbound[i].acks[1] = [by |-> h2, response |-> ErrorAck(inbound[i].request, Str("boom"))]
        /\ inbound[i].acks[Len(inbound[i].acks)] = [by |-> h1, response |-> ResultAck(inbound[i].request, V1)]
        /\ calls[CallerOf(i)].state = "rejected"
        /\ calls[CallerOf(i)].value = RPCError(500, Str("boom"))

\* C17: a call that has resolved or rejected keeps its state and its value in
\* every later step, whatever response its acknowledgement callback is
\* invoked with again.
C17_SingleResolution ==
    [][\A k \in 1..Len(calls) :
          calls[k].state # "pending" =>
              /\ calls'[k].state = calls[k].state
              /\ calls'[k].value = calls[k].value]_vars

C17_Witness ==
    \E k \in 1..Len(calls) : \E j \in 1..Len(calls) :
        /\ k # j
        /\ calls[k].again
        /\ calls[k].first = RPCResponse(calls[k].reqId, Undefined, E401)
        /\ calls[k].state = "rejected"
        /\ calls[k].value = E401
        /\ calls[j].again
        /\ calls[j].first = RPCResponse(calls[j].reqId, V1, Undefined)
        /\ calls[j].state = "resolved"
        /\ calls[j].value = V1

\* C18: the k-th call of request() or authenticate() has the decimal string
\* of k as its id, its envelope carries that id, and the counter is the
\* number of calls made, whatever handlers are running and whatever
\* acknowledgement callbacks have run when the call is made.
C18_IdIsCallNumber ==
    /\ id = Len(calls)
    /\ \A k \in 1..Len(calls) :
          /\ calls[k].reqId = toString(k)
          /\ EnvelopesOf(k) # {}
          /\ \A i \in EnvelopesOf(k) : outbox[i].args[1].id = toString(k)
    /\ Len(calls) >= 1 => calls[1].reqId = "1"

C18_Witness ==
    /\ Len(calls) = 3
    /\ calls[1].reqId = "1" /\ calls[1].op = "request" /\ calls[1].state = "resolved"
    /\ calls[2].reqId = "2" /\ calls[2].op = "authenticate"
    /\ calls[3].reqId = "3" /\ calls[3].op = "request"
    /\ \E i \in 1..Len(inbound) : \E l \in DOMAIN inbound[i].handlers :
          /\ inbound[i].from # 0
          /\ CallerOf(i) = 3
          /\ inbound[i].handlers[l].stage = "running"

\* The first responses of two calls differ in nothing but their id.
SameButId(r1, r2) == r1.result = r2.result /\ r1.error = r2.error

====
